---- MODULE Spec2Model ----
(***************************************************************************)
(* Astralux license server: the SQLite database licenses.db (tables        *)
(* licenses and access_logs) shared by the request handlers of             *)
(* license_api.py and app.py.  Each handler runs on its own connection;    *)
(* a SELECT reads the committed database, the first INSERT/UPDATE of a     *)
(* connection opens a transaction and takes SQLite's single write lock,    *)
(* commit() publishes the transaction and releases the lock.               *)
(***************************************************************************)
EXTENDS Integers, Sequences, FiniteSets, TLC

(* ---- bounds of the model ---- *)
NumProcs == 2      \* requests that can be in flight at the same time
MaxRequests == 4   \* requests a behaviour of Spec starts
MaxLog == 4        \* access_logs rows a behaviour may write

(* ---- program constants ---- *)
DefaultResets == 1              \* hwid_resets INTEGER DEFAULT 1
ADMIN_SECRET == "Qrynt10"       \* os.getenv('ADMIN_SECRET', 'Qrynt10')

NULL == "NULL"                  \* SQL NULL / Python None

Procs == 1 .. NumProcs
Keys == {"K1"}
DiscordIds == {"u1", "u2"}
Secrets == {ADMIN_SECRET, "guess"}

(* the request bodies as the clients send them, before normalisation *)
RawKeys == {"K1", " k1 ", ""}
RawHwids == {"A", " A ", "B", ""}
RawDiscordIds == {"u1", " u1", "u2", ""}

(* data.get('license_key', '').strip().upper() *)
NormKey(raw) ==
    CASE raw = " k1 " -> "K1"
      [] OTHER -> raw

(* data.get('hwid', '').strip(), data.get('discord_id', '').strip() *)
Strip(raw) ==
    CASE raw = " A " -> "A"
      [] raw = " u1" -> "u1"
      [] OTHER -> raw

(* request.remote_addr: the address of the client connection of slot p *)
remote_addr(p) == IF p = 1 THEN "ip1" ELSE "ip2"

(* Python truthiness of a column value: None and '' are falsy *)
Truthy(v) == v # NULL /\ v # ""

VARIABLES
    licenses,       \* committed table licenses: license_key -> row
    access_logs,    \* committed table access_logs, in id order
    txn_licenses,   \* table licenses as the open write transaction sees it
    txn_logs,       \* table access_logs as the open write transaction sees it
    writer,         \* connection holding the write lock, 0 when none
    req,            \* per request slot: handler, position, inputs, locals
    nreq            \* requests the server still takes

vars == <<licenses, access_logs, txn_licenses, txn_logs, writer, req, nreq>>

(* ---- rows and responses ---- *)

(* a row of licenses as INSERT creates it, column defaults included *)
NewRow(discord_id, created_at, activated_at) ==
    [hwid |-> NULL, discord_id |-> discord_id, revoked |-> 0,
     hwid_resets |-> DefaultResets, created_at |-> created_at,
     activated_at |-> activated_at]

LogRow(license_key, hwid, ip) ==
    [license_key |-> license_key, hwid |-> hwid, ip_address |-> ip]

(* SELECT ... FROM licenses WHERE license_key = ?  followed by fetchone():
   the empty sequence is None *)
fetchone(table, license_key) ==
    IF license_key \in DOMAIN table THEN <<table[license_key]>> ELSE << >>

(* UPDATE licenses SET col = v WHERE license_key = ? *)
UpdateRow(table, license_key, new) ==
    IF license_key \in DOMAIN table
    THEN [table EXCEPT ![license_key] = new]
    ELSE table

InsertRow(table, license_key, new) ==
    [k \in DOMAIN table \cup {license_key} |->
        IF k = license_key THEN new ELSE table[k]]

jsonify(code, msg) ==
    [code |-> code, msg |-> msg, status |-> "", unique_hwids |-> 0,
     unique_ips |-> 0]

NoResp == jsonify(0, "")

IdleReq ==
    [op |-> "none", pc |-> "idle", license_key |-> "", hwid |-> "",
     discord_id |-> "", admin_secret |-> "", row |-> << >>, resp |-> NoResp]

(* a request slot is free until a request arrives on it, and again once the
   answer of that request has been sent *)
Free(p) == req[p].pc = "idle"

(* rows of access_logs the requests in flight may still write *)
WillLog(p) ==
    /\ req[p].pc \notin {"idle", "done"}
    /\ req[p].op \in {"validate_license", "validate", "redeem"}

LogBudget ==
    Len(access_logs) + Cardinality({p \in Procs : WillLog(p)}) < MaxLog

(* a request arrives on slot p, reads row and goes on at pc *)
Begin(p, op, pc, license_key, hwid, discord_id, row) ==
    /\ nreq > 0
    /\ nreq' = nreq - 1
    /\ req' = [req EXCEPT ![p] =
        [op |-> op, pc |-> pc, license_key |-> license_key,
         hwid |-> hwid, discord_id |-> discord_id, admin_secret |-> "",
         row |-> row, resp |-> NoResp]]

(* a request arrives on slot p and is answered before it writes anything:
   return jsonify(...), code *)
Return(p, op, license_key, hwid, discord_id, row, resp) ==
    /\ nreq > 0
    /\ nreq' = nreq - 1
    /\ req' = [req EXCEPT ![p] =
        [op |-> op, pc |-> "done", license_key |-> license_key,
         hwid |-> hwid, discord_id |-> discord_id, admin_secret |-> "",
         row |-> row, resp |-> resp]]

(* an admin request arrives on slot p with admin_secret in its body *)
AdminBegin(p, op, pc, license_key, discord_id, admin_secret, row) ==
    /\ nreq > 0
    /\ nreq' = nreq - 1
    /\ req' = [req EXCEPT ![p] =
        [IdleReq EXCEPT !.op = op, !.pc = pc, !.license_key = license_key,
                        !.discord_id = discord_id,
                        !.admin_secret = admin_secret, !.row = row]]

AdminReturn(p, op, license_key, admin_secret, row, resp) ==
    /\ nreq > 0
    /\ nreq' = nreq - 1
    /\ req' = [req EXCEPT ![p] =
        [IdleReq EXCEPT !.op = op, !.pc = "done",
                        !.license_key = license_key,
                        !.admin_secret = admin_secret, !.row = row,
                        !.resp = resp]]

(* the request of slot p answers resp *)
Finish(p, resp) ==
    /\ req' = [req EXCEPT ![p].pc = "done", ![p].resp = resp]
    /\ UNCHANGED nreq

Goto(p, pc) ==
    /\ req' = [req EXCEPT ![p].pc = pc]
    /\ UNCHANGED nreq

DbUnchanged == UNCHANGED <<licenses, access_logs, txn_licenses, txn_logs, writer>>

(* the first write statement of a connection: BEGIN, take the write lock *)
WriteLicenses(p, table) ==
    /\ writer = 0
    /\ writer' = p
    /\ txn_licenses' = table
    /\ UNCHANGED <<licenses, access_logs, txn_logs>>

WriteLogs(p, rows) ==
    /\ writer = 0
    /\ writer' = p
    /\ txn_logs' = rows
    /\ UNCHANGED <<licenses, access_logs, txn_licenses>>

(* conn.commit() *)
Commit(p) ==
    /\ writer = p
    /\ licenses' = txn_licenses
    /\ access_logs' = txn_logs
    /\ writer' = 0
    /\ UNCHANGED <<txn_licenses, txn_logs>>

Init ==
    /\ licenses = << >>
    /\ access_logs = << >>
    /\ txn_licenses = << >>
    /\ txn_logs = << >>
    /\ writer = 0
    /\ req = [p \in Procs |-> IdleReq]
    /\ nreq = MaxRequests


(***************************************************************************)
(* license_api.py                                                          *)
(***************************************************************************)

(* log_access(license_key, hwid, ip_address): INSERT on a connection of its
   own, then commit *)
log_access_insert(p) ==
    /\ req[p].pc = "log_insert"
    /\ req[p].op = "validate_license"
    /\ WriteLogs(p, Append(access_logs,
            LogRow(req[p].license_key, req[p].hwid, remote_addr(p))))
    /\ Goto(p, "log_commit")

(* validate_license_result without the comparison of the stored hwid with
   the hwid of the request *)
validate_license_result_any_hwid(row, hwid) ==
    IF ~Truthy(row.hwid)
    THEN jsonify(200, "HWID bound successfully")
    ELSE jsonify(200, "License valid")

(* the answer of validate_license, chosen by the row it read *)
validate_license_result(row, hwid) ==
    IF ~Truthy(row.hwid)
    THEN jsonify(200, "HWID bound successfully")
    ELSE IF row.hwid = hwid
         THEN jsonify(200, "License valid")
         ELSE jsonify(403, "HWID mismatch. License is bound to another PC.")

log_access_commit(p) ==
    /\ req[p].pc = "log_commit"
    /\ req[p].op = "validate_license"
    /\ Commit(p)
    /\ Finish(p, validate_license_result(req[p].row[1], req[p].hwid))

(* /api/redeem of license_api.py: ties a license to a Discord account.
   The request arrives, its body is read and the license is selected. *)
redeem_license(p) ==
    /\ Free(p)
    /\ \E rawkey \in RawKeys, rawid \in RawDiscordIds :
        LET license_key == NormKey(rawkey)
            discord_id == Strip(rawid)
            license_data == fetchone(licenses, license_key)
        IN  IF license_key = "" \/ discord_id = ""
            THEN Return(p, "redeem_license", license_key, "", discord_id,
                        << >>,
                        jsonify(400, "Missing license_key or discord_id"))
            ELSE IF license_data # << >> /\ Truthy(license_data[1].discord_id)
            THEN Return(p, "redeem_license", license_key, "", discord_id,
                        license_data,
                        jsonify(400, "License already redeemed"))
            ELSE Begin(p, "redeem_license", "update", license_key, "",
                       discord_id, license_data)
    /\ DbUnchanged

(* redeem_license_update that writes back the whole row as the SELECT read
   it, with the new owner, in place of the UPDATE of two columns *)
redeem_license_update_whole_row(p) ==
    /\ req[p].op = "redeem_license"
    /\ req[p].pc = "update"
    /\ LET k == req[p].license_key
       IN  IF req[p].row # << >>
           THEN /\ WriteLicenses(p, UpdateRow(licenses, k,
                        [req[p].row[1] EXCEPT !.discord_id = req[p].discord_id,
                                              !.activated_at = "t"]))
                /\ Goto(p, "commit")
           ELSE IF k \in DOMAIN licenses
                THEN /\ writer = 0
                     /\ DbUnchanged
                     /\ Finish(p, jsonify(500, "IntegrityError"))
                ELSE /\ WriteLicenses(p, InsertRow(licenses, k,
                            NewRow(req[p].discord_id, "t", "t")))
                     /\ Goto(p, "commit")

(* the UPDATE of a row that was found, the INSERT of a row that was not; the
   INSERT of a key that another request created meanwhile violates the
   primary key, the exception ends the request and its transaction *)
redeem_license_update(p) ==
    /\ req[p].op = "redeem_license"
    /\ req[p].pc = "update"
    /\ LET k == req[p].license_key
       IN  IF req[p].row # << >>
           THEN /\ WriteLicenses(p, UpdateRow(licenses, k,
                        [licenses[k] EXCEPT !.discord_id = req[p].discord_id,
                                            !.activated_at = "t"]))
                /\ Goto(p, "commit")
           ELSE IF k \in DOMAIN licenses
                THEN /\ writer = 0
                     /\ DbUnchanged
                     /\ Finish(p, jsonify(500, "IntegrityError"))
                ELSE /\ WriteLicenses(p, InsertRow(licenses, k,
                            NewRow(req[p].discord_id, "t", "t")))
                     /\ Goto(p, "commit")

redeem_license_commit(p) ==
    /\ req[p].op = "redeem_license"
    /\ req[p].pc = "commit"
    /\ Commit(p)
    /\ Finish(p, jsonify(200, "License redeemed successfully"))

(* validate_license without the test of discord_id *)
validate_license_ungated(p) ==
    /\ Free(p)
    /\ \E rawkey \in RawKeys, rawhwid \in RawHwids :
        LET license_key == NormKey(rawkey)
            hwid == Strip(rawhwid)
            license_data == fetchone(licenses, license_key)
        IN  IF license_key = "" \/ hwid = ""
            THEN Return(p, "validate_license", license_key, hwid, "", << >>,
                        jsonify(400, "Missing license_key or hwid"))
            ELSE IF license_data = << >>
            THEN Return(p, "validate_license", license_key, hwid, "", << >>,
                        jsonify(404, "License not found"))
            ELSE IF license_data[1].revoked = 1
            THEN Return(p, "validate_license", license_key, hwid, "",
                        license_data,
                        jsonify(403, "License has been revoked"))
            ELSE /\ LogBudget
                 /\ Begin(p, "validate_license",
                          IF ~Truthy(license_data[1].hwid)
                          THEN "update" ELSE "log_insert",
                          license_key, hwid, "", license_data)
    /\ DbUnchanged

(* /api/validate of license_api.py *)
validate_license(p) ==
    /\ Free(p)
    /\ \E rawkey \in RawKeys, rawhwid \in RawHwids :
        LET license_key == NormKey(rawkey)
            hwid == Strip(rawhwid)
            license_data == fetchone(licenses, license_key)
        IN  IF license_key = "" \/ hwid = ""
            THEN Return(p, "validate_license", license_key, hwid, "", << >>,
                        jsonify(400, "Missing license_key or hwid"))
            ELSE IF license_data = << >>
            THEN Return(p, "validate_license", license_key, hwid, "", << >>,
                        jsonify(404, "License not found"))
            ELSE IF license_data[1].revoked = 1
            THEN Return(p, "validate_license", license_key, hwid, "",
                        license_data,
                        jsonify(403, "License has been revoked"))
            ELSE IF ~Truthy(license_data[1].discord_id)
            THEN Return(p, "validate_license", license_key, hwid, "",
                        license_data,
                        jsonify(403,
                          "License not activated. Redeem in Discord first."))
            ELSE /\ LogBudget
                 /\ Begin(p, "validate_license",
                          IF ~Truthy(license_data[1].hwid)
                          THEN "update" ELSE "log_insert",
                          license_key, hwid, "", license_data)
    /\ DbUnchanged

(* validate_license_update that goes on to log_access with its UPDATE not
   yet committed *)
validate_license_update_logs_first(p) ==
    /\ req[p].op = "validate_license"
    /\ req[p].pc = "update"
    /\ LET k == req[p].license_key
       IN  WriteLicenses(p, UpdateRow(licenses, k,
                [licenses[k] EXCEPT !.hwid = req[p].hwid]))
    /\ Goto(p, "log_insert")

(* First time binding HWID: UPDATE licenses SET hwid = ? *)
validate_license_update(p) ==
    /\ req[p].op = "validate_license"
    /\ req[p].pc = "update"
    /\ LET k == req[p].license_key
       IN  WriteLicenses(p, UpdateRow(licenses, k,
                [licenses[k] EXCEPT !.hwid = req[p].hwid]))
    /\ Goto(p, "commit")

validate_license_commit(p) ==
    /\ req[p].op = "validate_license"
    /\ req[p].pc = "commit"
    /\ Commit(p)
    /\ Goto(p, "log_insert")

(* revoke_license with the test of license_key before the test of
   admin_secret *)
revoke_license_key_first(p) ==
    /\ Free(p)
    /\ \E rawkey \in RawKeys, admin_secret \in Secrets :
        LET license_key == NormKey(rawkey)
        IN  IF license_key = ""
            THEN AdminReturn(p, "revoke_license", license_key, admin_secret,
                             << >>, jsonify(400, "Missing license_key"))
            ELSE IF admin_secret # ADMIN_SECRET
            THEN AdminReturn(p, "revoke_license", license_key, admin_secret,
                             << >>, jsonify(401, "Unauthorized"))
            ELSE AdminBegin(p, "revoke_license", "update", license_key, "",
                            admin_secret, << >>)
    /\ DbUnchanged

(* /api/revoke: the request arrives and is authorised *)
revoke_license(p) ==
    /\ Free(p)
    /\ \E rawkey \in RawKeys, admin_secret \in Secrets :
        LET license_key == NormKey(rawkey)
        IN  IF admin_secret # ADMIN_SECRET
            THEN AdminReturn(p, "revoke_license", license_key, admin_secret,
                             << >>, jsonify(401, "Unauthorized"))
            ELSE IF license_key = ""
            THEN AdminReturn(p, "revoke_license", license_key, admin_secret,
                             << >>, jsonify(400, "Missing license_key"))
            ELSE AdminBegin(p, "revoke_license", "update", license_key, "",
                            admin_secret, << >>)
    /\ DbUnchanged

(* revoke_license_update that also deletes the access-log rows of the
   license it revokes *)
revoke_license_update_purges_log(p) ==
    /\ req[p].op = "revoke_license"
    /\ req[p].pc = "update"
    /\ LET k == req[p].license_key
           kept(row) == row.license_key # k
       IN  IF k \notin DOMAIN licenses
           THEN /\ writer = 0
                /\ DbUnchanged
                /\ Finish(p, jsonify(404, "License not found"))
           ELSE /\ writer = 0
                /\ writer' = p
                /\ txn_licenses' = UpdateRow(licenses, k,
                        [licenses[k] EXCEPT !.revoked = 1])
                /\ txn_logs' = SelectSeq(access_logs, kept)
                /\ UNCHANGED <<licenses, access_logs>>
                /\ Goto(p, "commit")

(* UPDATE licenses SET revoked = 1; rowcount 0 closes the connection
   without a commit *)
revoke_license_update(p) ==
    /\ req[p].op = "revoke_license"
    /\ req[p].pc = "update"
    /\ LET k == req[p].license_key
       IN  IF k \notin DOMAIN licenses
           THEN /\ writer = 0
                /\ DbUnchanged
                /\ Finish(p, jsonify(404, "License not found"))
           ELSE /\ WriteLicenses(p, UpdateRow(licenses, k,
                        [licenses[k] EXCEPT !.revoked = 1]))
                /\ Goto(p, "commit")

revoke_license_commit(p) ==
    /\ req[p].op = "revoke_license"
    /\ req[p].pc = "commit"
    /\ Commit(p)
    /\ Finish(p, jsonify(200, "License revoked"))

(* SELECT hwid_resets FROM licenses WHERE license_key = ? *)
select_hwid_resets(table, license_key) ==
    IF license_key \in DOMAIN table
    THEN <<[hwid_resets |-> table[license_key].hwid_resets]>>
    ELSE << >>

(* /api/hwid-reset *)
hwid_reset(p) ==
    /\ Free(p)
    /\ \E rawkey \in RawKeys, admin_secret \in Secrets :
        LET license_key == NormKey(rawkey)
            result == select_hwid_resets(licenses, license_key)
        IN  IF admin_secret # ADMIN_SECRET
            THEN AdminReturn(p, "hwid_reset", license_key, admin_secret,
                             << >>, jsonify(401, "Unauthorized"))
            ELSE IF license_key = ""
            THEN AdminReturn(p, "hwid_reset", license_key, admin_secret,
                             << >>, jsonify(400, "Missing license_key"))
            ELSE IF result = << >>
            THEN AdminReturn(p, "hwid_reset", license_key, admin_secret,
                             << >>, jsonify(404, "License not found"))
            ELSE IF result[1].hwid_resets <= 0
            THEN AdminReturn(p, "hwid_reset", license_key, admin_secret,
                             result,
                             jsonify(403, "No HWID resets remaining"))
            ELSE AdminBegin(p, "hwid_reset", "update", license_key, "",
                            admin_secret, result)
    /\ DbUnchanged

(* hwid_reset_update without the hwid = NULL of its SET clause *)
hwid_reset_update_keeps_hwid(p) ==
    /\ req[p].op = "hwid_reset"
    /\ req[p].pc = "update"
    /\ LET k == req[p].license_key
       IN  WriteLicenses(p, UpdateRow(licenses, k,
                [licenses[k] EXCEPT !.hwid_resets = @ - 1]))
    /\ Goto(p, "commit")

(* UPDATE licenses SET hwid = NULL, hwid_resets = hwid_resets - 1: the
   decrement is computed on the row as it is when the UPDATE runs *)
hwid_reset_update(p) ==
    /\ req[p].op = "hwid_reset"
    /\ req[p].pc = "update"
    /\ LET k == req[p].license_key
       IN  WriteLicenses(p, UpdateRow(licenses, k,
                [licenses[k] EXCEPT !.hwid = NULL,
                                    !.hwid_resets = @ - 1]))
    /\ Goto(p, "commit")

(* hwid_reset_commit for a handler that tests the counter after its UPDATE:
   the decrement is committed and the request is then refused *)
hwid_reset_commit_late_check(p) ==
    /\ req[p].op = "hwid_reset"
    /\ req[p].pc = "commit"
    /\ Commit(p)
    /\ Finish(p, IF txn_licenses[req[p].license_key].hwid_resets <= 0
                 THEN jsonify(403, "No HWID resets remaining")
                 ELSE jsonify(200, "HWID reset successfully"))

hwid_reset_commit(p) ==
    /\ req[p].op = "hwid_reset"
    /\ req[p].pc = "commit"
    /\ Commit(p)
    /\ Finish(p, jsonify(200, "HWID reset successfully"))

(* SELECT DISTINCT hwid FROM access_logs WHERE license_key = ? *)
distinct_hwids(rows, license_key) ==
    {rows[i].hwid : i \in {j \in 1 .. Len(rows) :
                                rows[j].license_key = license_key}}

(* SELECT DISTINCT ip_address FROM access_logs WHERE license_key = ? *)
distinct_ips(rows, license_key) ==
    {rows[i].ip_address : i \in {j \in 1 .. Len(rows) :
                                rows[j].license_key = license_key}}

(* status = "OK" / if hwid_count >= 2 / elif hwid_count >= 3 *)
share_status(hwid_count) ==
    IF hwid_count >= 2
    THEN "SHARING DETECTED"
    ELSE IF hwid_count >= 3
         THEN "AUTO-REVOKE RECOMMENDED"
         ELSE "OK"

(* /api/check-share: authorisation and the first of its two SELECTs; the
   count of the rows read is kept in the answer under construction *)
check_share(p) ==
    /\ Free(p)
    /\ \E rawkey \in RawKeys \cup {"K2"}, admin_secret \in Secrets :
        LET license_key == NormKey(rawkey)
        IN  IF admin_secret # ADMIN_SECRET
            THEN AdminReturn(p, "check_share", license_key, admin_secret,
                             << >>, jsonify(401, "Unauthorized"))
            ELSE IF license_key = ""
            THEN AdminReturn(p, "check_share", license_key, admin_secret,
                             << >>, jsonify(400, "Missing license_key"))
            ELSE /\ nreq > 0
                 /\ nreq' = nreq - 1
                 /\ req' = [req EXCEPT ![p] =
                        [IdleReq EXCEPT !.op = "check_share",
                            !.pc = "select_ips",
                            !.license_key = license_key,
                            !.admin_secret = admin_secret,
                            !.resp.unique_hwids = Cardinality(
                                distinct_hwids(access_logs, license_key))]]
    /\ DbUnchanged

check_share_ips(p) ==
    /\ req[p].op = "check_share"
    /\ req[p].pc = "select_ips"
    /\ LET hwid_count == req[p].resp.unique_hwids
           ip_count == Cardinality(distinct_ips(access_logs,
                                                 req[p].license_key))
       IN  Finish(p, [code |-> 200, msg |-> "",
                      status |-> share_status(hwid_count),
                      unique_hwids |-> hwid_count, unique_ips |-> ip_count])
    /\ DbUnchanged

(***************************************************************************)
(* app.py                                                                  *)
(***************************************************************************)

(* /api/validate of app.py: no hardware id, the log row carries None *)
validate(p) ==
    /\ Free(p)
    /\ \E rawkey \in RawKeys :
        LET license_key == NormKey(rawkey)
            row == fetchone(licenses, license_key)
        IN  IF license_key = ""
            THEN Return(p, "validate", license_key, NULL, "", << >>,
                        jsonify(400, "Missing license_key"))
            ELSE IF row = << >>
            THEN Return(p, "validate", license_key, NULL, "", << >>,
                        jsonify(404, "License not found"))
            ELSE IF row[1].revoked # 0
            THEN Return(p, "validate", license_key, NULL, "", row,
                        jsonify(403, "License revoked"))
            ELSE /\ LogBudget
                 /\ Begin(p, "validate", "insert", license_key, NULL, "",
                          row)
    /\ DbUnchanged

validate_insert(p) ==
    /\ req[p].op = "validate"
    /\ req[p].pc = "insert"
    /\ WriteLogs(p, Append(access_logs,
            LogRow(req[p].license_key, NULL, remote_addr(p))))
    /\ Goto(p, "commit")

validate_commit(p) ==
    /\ req[p].op = "validate"
    /\ req[p].pc = "commit"
    /\ Commit(p)
    /\ Finish(p, jsonify(200, "License valid"))

(* the branch /api/claim takes on the row it read *)
claim_decision(row, discord_id) ==
    IF row.revoked # 0
    THEN "revoked"
    ELSE IF Truthy(row.discord_id) /\ row.discord_id # discord_id
    THEN "claimed"
    ELSE IF ~Truthy(row.discord_id)
    THEN "update"
    ELSE "same"

(* /api/claim *)
claim(p) ==
    /\ Free(p)
    /\ \E rawkey \in RawKeys, rawid \in RawDiscordIds :
        LET license_key == NormKey(rawkey)
            discord_id == Strip(rawid)
            row == fetchone(licenses, license_key)
        IN  IF license_key = "" \/ discord_id = ""
            THEN Return(p, "claim", license_key, "", discord_id, << >>,
                        jsonify(400, "Missing license_key or discord_id"))
            ELSE IF row = << >>
            THEN Return(p, "claim", license_key, "", discord_id, << >>,
                        jsonify(404, "License not found"))
            ELSE IF claim_decision(row[1], discord_id) = "revoked"
            THEN Return(p, "claim", license_key, "", discord_id, row,
                        jsonify(403, "License revoked"))
            ELSE IF claim_decision(row[1], discord_id) = "claimed"
            THEN Return(p, "claim", license_key, "", discord_id, row,
                        jsonify(403,
                            "License already claimed by another user"))
            ELSE IF claim_decision(row[1], discord_id) = "update"
            THEN Begin(p, "claim", "update", license_key, "", discord_id,
                       row)
            ELSE Return(p, "claim", license_key, "", discord_id, row,
                        jsonify(200, "License claimed successfully"))
    /\ DbUnchanged

(* claim_update that writes back the whole row as the SELECT read it, with
   the new owner, in place of the UPDATE of discord_id *)
claim_update_whole_row(p) ==
    /\ req[p].op = "claim"
    /\ req[p].pc = "update"
    /\ LET k == req[p].license_key
       IN  WriteLicenses(p, UpdateRow(licenses, k,
                [req[p].row[1] EXCEPT !.discord_id = req[p].discord_id]))
    /\ Goto(p, "commit")

claim_update(p) ==
    /\ req[p].op = "claim"
    /\ req[p].pc = "update"
    /\ LET k == req[p].license_key
       IN  WriteLicenses(p, UpdateRow(licenses, k,
                [licenses[k] EXCEPT !.discord_id = req[p].discord_id]))
    /\ Goto(p, "commit")

claim_commit(p) ==
    /\ req[p].op = "claim"
    /\ req[p].pc = "commit"
    /\ Commit(p)
    /\ Finish(p, jsonify(200, "License claimed successfully"))

(* /api/redeem of app.py: binds the license to a HWID *)
redeem(p) ==
    /\ Free(p)
    /\ \E rawkey \in RawKeys, rawhwid \in RawHwids :
        LET license_key == NormKey(rawkey)
            hwid == Strip(rawhwid)
            row == fetchone(licenses, license_key)
        IN  IF license_key = "" \/ hwid = ""
            THEN Return(p, "redeem", license_key, hwid, "", << >>,
                        jsonify(400, "Missing license_key or hwid"))
            ELSE IF row = << >>
            THEN Return(p, "redeem", license_key, hwid, "", << >>,
                        jsonify(404, "License not found"))
            ELSE IF row[1].revoked # 0
            THEN Return(p, "redeem", license_key, hwid, "", row,
                        jsonify(403, "License revoked"))
            ELSE IF Truthy(row[1].hwid) /\ row[1].hwid # hwid
            THEN Return(p, "redeem", license_key, hwid, "", row,
                        jsonify(403, "HWID mismatch"))
            ELSE /\ LogBudget
                 /\ Begin(p, "redeem",
                          IF Truthy(row[1].hwid)
                          THEN "log_insert" ELSE "update",
                          license_key, hwid, "", row)
    /\ DbUnchanged

redeem_update(p) ==
    /\ req[p].op = "redeem"
    /\ req[p].pc = "update"
    /\ LET k == req[p].license_key
       IN  WriteLicenses(p, UpdateRow(licenses, k,
                [licenses[k] EXCEPT !.hwid = req[p].hwid,
                                    !.activated_at = "t"]))
    /\ Goto(p, "commit")

redeem_commit(p) ==
    /\ req[p].op = "redeem"
    /\ req[p].pc = "commit"
    /\ Commit(p)
    /\ Goto(p, "log_insert")

(* log_access(license_key, hwid, ip) of app.py *)
app_log_access_insert(p) ==
    /\ req[p].op = "redeem"
    /\ req[p].pc = "log_insert"
    /\ WriteLogs(p, Append(access_logs,
            LogRow(req[p].license_key, req[p].hwid, remote_addr(p))))
    /\ Goto(p, "log_commit")

app_log_access_commit(p) ==
    /\ req[p].op = "redeem"
    /\ req[p].pc = "log_commit"
    /\ Commit(p)
    /\ Finish(p, IF Truthy(req[p].row[1].hwid)
                 THEN jsonify(200, "License validated")
                 ELSE jsonify(200, "License activated"))

(* /api/generate: the admin-only creation of a license record.  The body of
   the handler is not part of app.py; it follows the Generate operation of
   the specification: a new record with hwid unset, revoked false, the
   default reset counter and the optional owner identity; a key that exists
   is rejected by the primary key. *)
generate(p) ==
    /\ Free(p)
    /\ \E license_key \in Keys, admin_secret \in Secrets,
          owner \in DiscordIds \cup {NULL} :
        IF admin_secret # ADMIN_SECRET
        THEN AdminReturn(p, "generate", "", admin_secret, << >>,
                         jsonify(401, "Unauthorized"))
        ELSE AdminBegin(p, "generate", "insert", license_key, owner,
                        admin_secret, << >>)
    /\ DbUnchanged

generate_insert(p) ==
    /\ req[p].op = "generate"
    /\ req[p].pc = "insert"
    /\ LET k == req[p].license_key
       IN  IF k \in DOMAIN licenses
           THEN /\ writer = 0
                /\ DbUnchanged
                /\ Finish(p, jsonify(500, "IntegrityError"))
           ELSE /\ WriteLicenses(p, InsertRow(licenses, k,
                        NewRow(req[p].discord_id, "t", NULL)))
                /\ Goto(p, "commit")

generate_commit(p) ==
    /\ req[p].op = "generate"
    /\ req[p].pc = "commit"
    /\ Commit(p)
    /\ Finish(p, jsonify(200, req[p].license_key))

(* app.run(...): the answer goes out and the server takes the next request *)
deliver(p) ==
    /\ req[p].pc = "done"
    /\ req' = [req EXCEPT ![p] = IdleReq]
    /\ UNCHANGED nreq
    /\ DbUnchanged

(* sqlite3.connect(DATABASE) waits for the write lock up to its timeout;
   a write statement that does not get it raises "database is locked",
   which ends the request with a server error *)
database_is_locked(p) ==
    /\ req[p].pc \in {"update", "insert", "log_insert"}
    /\ writer # 0
    /\ writer # p
    /\ Finish(p, jsonify(500, "database is locked"))
    /\ DbUnchanged

Next ==
    \E p \in Procs :
        \/ redeem_license(p)
        \/ redeem_license_update(p)
        \/ redeem_license_commit(p)
        \/ validate_license(p)
        \/ validate_license_update(p)
        \/ validate_license_commit(p)
        \/ log_access_insert(p)
        \/ log_access_commit(p)
        \/ revoke_license(p)
        \/ revoke_license_update(p)
        \/ revoke_license_commit(p)
        \/ hwid_reset(p)
        \/ hwid_reset_update(p)
        \/ hwid_reset_commit(p)
        \/ check_share(p)
        \/ check_share_ips(p)
        \/ validate(p)
        \/ validate_insert(p)
        \/ validate_commit(p)
        \/ claim(p)
        \/ claim_update(p)
        \/ claim_commit(p)
        \/ redeem(p)
        \/ redeem_update(p)
        \/ redeem_commit(p)
        \/ app_log_access_insert(p)
        \/ app_log_access_commit(p)
        \/ generate(p)
        \/ generate_insert(p)
        \/ generate_commit(p)
        \/ database_is_locked(p)
        \/ deliver(p)

Spec == Init /\ [][Next]_vars

(***************************************************************************)
(* check_share on its own: the access log is any log the validate          *)
(* handlers can have written for two licenses redeemed by u1               *)
(* (redeem_license creates the license; validate of app.py logs None; the  *)
(* first validate_license binds and logs its hwid, each later one logs     *)
(* its hwid on the match and on the mismatch branch).                      *)
(***************************************************************************)
ShareMaxLog == 3

ShareKeys == {"K1", "K2"}

ShareRows ==
    {LogRow(k, h, remote_addr(1)) : k \in ShareKeys, h \in {"A", "B", "C", NULL}}

ShareLogs == UNION {[1 .. n -> ShareRows] : n \in 0 .. ShareMaxLog}

(* the hwid the license is bound to after the requests that wrote rows *)
BoundBy(rows, k) ==
    LET idx == {i \in 1 .. Len(rows) :
                    rows[i].license_key = k /\ rows[i].hwid # NULL}
    IN  IF idx = {}
        THEN NULL
        ELSE rows[CHOOSE i \in idx : \A j \in idx : i <= j].hwid

InitShare ==
    /\ access_logs \in ShareLogs
    /\ txn_logs = access_logs
    /\ licenses = [k \in ShareKeys |->
            [NewRow("u1", "t", "t") EXCEPT !.hwid = BoundBy(access_logs, k)]]
    /\ txn_licenses = licenses
    /\ writer = 0
    /\ req = [p \in Procs |-> IdleReq]
    /\ nreq = MaxRequests

NextShare ==
    \E p \in Procs :
        \/ check_share(p)
        \/ check_share_ips(p)
        \/ deliver(p)

SpecShare == InitShare /\ [][NextShare]_vars

(***************************************************************************)
(* One client that sends its requests one after the other: every request   *)
(* is answered before the next one arrives, so no write ever waits for     *)
(* the lock.                                                               *)
(***************************************************************************)
SeqRequests == 8   \* requests a behaviour of SpecSeq starts

InitSeq ==
    /\ licenses = << >>
    /\ access_logs = << >>
    /\ txn_licenses = << >>
    /\ txn_logs = << >>
    /\ writer = 0
    /\ req = [p \in Procs |-> IdleReq]
    /\ nreq = SeqRequests

NextSeq ==
    \/ redeem_license(1)
    \/ redeem_license_update(1)
    \/ redeem_license_commit(1)
    \/ validate_license(1)
    \/ validate_license_update(1)
    \/ validate_license_commit(1)
    \/ log_access_insert(1)
    \/ log_access_commit(1)
    \/ revoke_license(1)
    \/ revoke_license_update(1)
    \/ revoke_license_commit(1)
    \/ hwid_reset(1)
    \/ hwid_reset_update(1)
    \/ hwid_reset_commit(1)
    \/ check_share(1)
    \/ check_share_ips(1)
    \/ validate(1)
    \/ validate_insert(1)
    \/ validate_commit(1)
    \/ claim(1)
    \/ claim_update(1)
    \/ claim_commit(1)
    \/ redeem(1)
    \/ redeem_update(1)
    \/ redeem_commit(1)
    \/ app_log_access_insert(1)
    \/ app_log_access_commit(1)
    \/ generate(1)
    \/ generate_insert(1)
    \/ generate_commit(1)
    \/ deliver(1)

SpecSeq == InitSeq /\ [][NextSeq]_vars


(***************************************************************************)
(* Properties                                                              *)
(***************************************************************************)

IsSuccess(resp) == resp.code = 200

IsMismatch(resp) ==
    /\ resp.code = 403
    /\ resp.msg \in {"HWID mismatch. License is bound to another PC.",
                     "HWID mismatch"}

IsRevoked(resp) ==
    /\ resp.code = 403
    /\ resp.msg \in {"License has been revoked", "License revoked"}

(* the answers to a request that names no license, hwid or identity, or
   that carries a wrong admin secret *)
IsMalformed(resp) ==
    \/ resp.code = 401
    \/ resp.code = 400 /\ resp.msg # "License already redeemed"

BindOps == {"validate_license", "redeem"}
ValidateOps == {"validate_license", "validate", "redeem"}
ClaimOps == {"claim", "redeem_license"}

(* a request arrives on slot p in this step *)
Arrives(p) == req[p].pc = "idle" /\ req'[p].pc # "idle"

(* the request of slot p is answered in this step *)
Answers(p) == req[p].pc # "done" /\ req'[p].pc = "done"

(* C1: two Validate requests with different hardware ids that both read
   the same license row with hwid unset, and both reach the binding
   decision, end with one success and one HWID mismatch. *)
C1_ExactlyOneBinds ==
    \A p \in Procs, q \in Procs :
        ( /\ p # q
          /\ req[p].pc = "done" /\ req[q].pc = "done"
          /\ req[p].op \in BindOps /\ req[q].op \in BindOps
          /\ req[p].license_key = req[q].license_key
          /\ req[p].hwid # req[q].hwid
          /\ req[p].row # << >>
          /\ req[p].row = req[q].row
          /\ ~Truthy(req[p].row[1].hwid)
          /\ IsSuccess(req[p].resp) \/ IsMismatch(req[p].resp)
          /\ IsSuccess(req[q].resp) \/ IsMismatch(req[q].resp) )
        => \/ IsSuccess(req[p].resp) /\ IsMismatch(req[q].resp)
           \/ IsMismatch(req[p].resp) /\ IsSuccess(req[q].resp)

(* C2: a well-formed Validate, Claim or ResetHwid request that arrives when
   its license is revoked is answered Revoked at once and writes nothing. *)
C2_RevokedRefusesAll ==
    [][\A p \in Procs :
        ( /\ Arrives(p)
          /\ req'[p].op \in ValidateOps \cup ClaimOps \cup {"hwid_reset"}
          /\ req'[p].license_key \in DOMAIN licenses
          /\ licenses[req'[p].license_key].revoked = 1
          /\ ~IsMalformed(req'[p].resp) )
        => /\ req'[p].pc = "done"
           /\ IsRevoked(req'[p].resp)
           /\ licenses' = licenses]_vars

(* C3: an owner identity that is set never changes, and a Claim that
   arrives with another identity is rejected. *)
C3_OwnerNeverOverwritten ==
    [][/\ \A k \in DOMAIN licenses :
            Truthy(licenses[k].discord_id)
            => licenses'[k].discord_id = licenses[k].discord_id
       /\ \A p \in Procs :
            ( /\ Arrives(p)
              /\ req'[p].op \in ClaimOps
              /\ req'[p].license_key \in DOMAIN licenses
              /\ Truthy(licenses[req'[p].license_key].discord_id)
              /\ req'[p].discord_id # ""
              /\ licenses[req'[p].license_key].discord_id
                    # req'[p].discord_id )
            => /\ req'[p].pc = "done"
               /\ ~IsSuccess(req'[p].resp)]_vars

(* C4: hwid_resets of every license is >= 0 in every reachable state. *)
C4_ResetsNonNegative ==
    \A k \in DOMAIN licenses : licenses[k].hwid_resets >= 0

(* C5: a stored hwid keeps its value until a hwid_reset clears it. *)
C5_HwidSetOnce ==
    [][\A k \in DOMAIN licenses :
        Truthy(licenses[k].hwid)
        => \/ licenses'[k].hwid = licenses[k].hwid
           \/ /\ licenses'[k].hwid = NULL
              /\ \E p \in Procs : hwid_reset_commit(p)]_vars

(* C6: a license whose hwid is set has activated_at set. *)
C6_BoundImpliesActivated ==
    \A k \in DOMAIN licenses :
        Truthy(licenses[k].hwid) => licenses[k].activated_at # NULL

(* C7: a Validate request that is answered success or HWID mismatch is
   answered in the step that commits its one access-log row, which carries
   the license key, the hwid of the request and the caller's address. *)
C7_ValidateLogsOnce ==
    [][\A p \in Procs :
        ( /\ Answers(p)
          /\ req'[p].op \in ValidateOps
          /\ IsSuccess(req'[p].resp) \/ IsMismatch(req'[p].resp) )
        => access_logs' = Append(access_logs,
                LogRow(req'[p].license_key, req'[p].hwid, remote_addr(p)))]_vars

(* the hardware ids logged for a license: the None of app.py's validate is
   no hardware id *)
logged_hwids(rows, license_key) == distinct_hwids(rows, license_key) \ {NULL}

(* C8: check_share answers OK for a count of at most 1, SHARING DETECTED
   for 2 and AUTO-REVOKE RECOMMENDED for 3 or more distinct hardware ids. *)
C8_Classification ==
    \A p \in Procs :
        ( /\ req[p].op = "check_share"
          /\ req[p].pc = "done"
          /\ IsSuccess(req[p].resp)
          /\ req[p].resp.unique_hwids
                = Cardinality(logged_hwids(access_logs, req[p].license_key)) )
        => req[p].resp.status =
                IF req[p].resp.unique_hwids <= 1 THEN "OK"
                ELSE IF req[p].resp.unique_hwids = 2 THEN "SHARING DETECTED"
                ELSE "AUTO-REVOKE RECOMMENDED"

(* C9: the count check_share reads is the number of distinct non-null hwid
   values logged for that license. *)
C9_CountsNonNullHwids ==
    [][\A p \in Procs :
        ( /\ Arrives(p)
          /\ req'[p].op = "check_share"
          /\ req'[p].pc = "select_ips" )
        => req'[p].resp.unique_hwids
            = Cardinality(logged_hwids(access_logs, req'[p].license_key))]_vars

(* a Claim with identity d arrives on a license that exists, is not revoked
   and is owned by d already: the second of two Claims in a row *)
SecondClaim(p) ==
    /\ Arrives(p)
    /\ req'[p].op \in ClaimOps
    /\ req'[p].license_key \in DOMAIN licenses
    /\ licenses[req'[p].license_key].revoked = 0
    /\ licenses[req'[p].license_key].discord_id = req'[p].discord_id

(* a Claim arrives on a license that exists, is not revoked and has no
   owner: the first of two Claims in a row *)
FirstClaim(p) ==
    /\ Arrives(p)
    /\ req'[p].op \in ClaimOps
    /\ req'[p].discord_id # ""
    /\ req'[p].license_key \in DOMAIN licenses
    /\ licenses[req'[p].license_key].revoked = 0
    /\ ~Truthy(licenses[req'[p].license_key].discord_id)

(* the first Claim goes on to its UPDATE, and the commit of that UPDATE
   answers success with the owner identity set to the identity claimed *)
FirstClaimSucceeds ==
    \A p \in Procs :
        /\ FirstClaim(p) => req'[p].pc = "update"
        /\ ( /\ claim_commit(p) \/ redeem_license_commit(p)
             /\ req[p].row # << >> )
           => /\ IsSuccess(req'[p].resp)
              /\ licenses'[req[p].license_key].discord_id = req[p].discord_id

(* C10: Claim is idempotent: the second of two Claims in a row with the
   same identity succeeds with either handler (claim of app.py,
   redeem_license of license_api.py) and leaves the owner identity as the
   first Claim set it. *)
C10_ClaimIdempotent ==
    [][/\ FirstClaimSucceeds
       /\ \A p \in Procs :
            SecondClaim(p)
            => /\ req'[p].pc = "done"
               /\ IsSuccess(req'[p].resp)
               /\ licenses' = licenses]_vars

(* a hwid_reset request is answered success in this step *)
ResetSucceeds(p) ==
    /\ Answers(p)
    /\ req'[p].op = "hwid_reset"
    /\ IsSuccess(req'[p].resp)

(* C11: with requests sent one after the other, the step that answers a
   hwid_reset with success lowers hwid_resets of its license from 1 to 0
   and clears hwid, changing nothing else; a hwid_reset that arrives for a
   license whose counter is 0 is refused with No HWID resets remaining and
   writes nothing; no step raises a counter, so a license gets at most one
   successful reset. *)
C11_ResetDecrements ==
    [][/\ \A k \in DOMAIN licenses :
            /\ k \in DOMAIN licenses'
            /\ licenses'[k].hwid_resets <= licenses[k].hwid_resets
       /\ \A p \in Procs :
            /\ ResetSucceeds(p)
               => /\ req[p].license_key \in DOMAIN licenses
                  /\ licenses[req[p].license_key].hwid_resets = DefaultResets
                  /\ licenses' = [licenses EXCEPT ![req[p].license_key] =
                        [@ EXCEPT !.hwid = NULL,
                                  !.hwid_resets = DefaultResets - 1]]
            /\ ( /\ Arrives(p)
                 /\ req'[p].op = "hwid_reset"
                 /\ ~IsMalformed(req'[p].resp)
                 /\ req'[p].license_key \in DOMAIN licenses
                 /\ licenses[req'[p].license_key].hwid_resets = 0 )
               => /\ req'[p].pc = "done"
                  /\ req'[p].resp = jsonify(403, "No HWID resets remaining")
                  /\ licenses' = licenses]_vars

(* a license bound to A, reset, bound again to B, and a second hwid_reset
   that was refused: the counter is 0 and the hwid is still B *)
C11_Witness ==
    /\ req[1].op = "hwid_reset"
    /\ req[1].pc = "done"
    /\ req[1].resp = jsonify(403, "No HWID resets remaining")
    /\ "K1" \in DOMAIN licenses
    /\ licenses["K1"].hwid_resets = 0
    /\ licenses["K1"].hwid = "B"
    /\ Len(access_logs) >= 2
    /\ access_logs[1].hwid = "A"

(* the license of the scenario: owned by user1 (u1), not revoked, with the
   given hwid and reset counter *)
ScenarioRow(row, hwid, hwid_resets) ==
    /\ row.discord_id = "u1"
    /\ row.revoked = 0
    /\ row.hwid = hwid
    /\ row.hwid_resets = hwid_resets

(* the license of the scenario before its claim, as a Claim reads it: no
   record yet (redeem_license creates it), or a record with no owner, no
   hwid and reset counter 1 *)
ScenarioFresh(row) ==
    \/ row = << >>
    \/ /\ row # << >>
       /\ row[1].revoked = 0
       /\ ~Truthy(row[1].discord_id)
       /\ row[1].hwid = NULL
       /\ row[1].hwid_resets = 1

(* validate(K1, hwid) that read the scenario license with hwid before is
   answered resp and leaves the license with hwid after, nothing else
   changed *)
ScenarioValidate(before, hwid_resets, hwid, resp, after) ==
    ( /\ Answers(1)
      /\ req[1].op = "validate_license"
      /\ req[1].license_key = "K1"
      /\ req[1].hwid = hwid
      /\ req[1].row # << >>
      /\ ScenarioRow(req[1].row[1], before, hwid_resets) )
    => /\ req'[1].resp = resp
       /\ licenses' = [licenses EXCEPT !["K1"] =
                            [req[1].row[1] EXCEPT !.hwid = after]]

(* reset(K1) that arrives when the scenario license has hwid before and the
   given counter *)
ScenarioResetArrives(before, hwid_resets) ==
    /\ Arrives(1)
    /\ req'[1].op = "hwid_reset"
    /\ req'[1].license_key = "K1"
    /\ ~IsMalformed(req'[1].resp)
    /\ "K1" \in DOMAIN licenses
    /\ ScenarioRow(licenses["K1"], before, hwid_resets)

(* C12: the requests claim(K1,u1); validate(K1,A); validate(K1,A);
   validate(K1,B); reset(K1); validate(K1,B); reset(K1), sent one after the
   other on a license with reset counter 1, are answered success; hardware
   bound (to A); valid; HWID mismatch; reset success (counter 0, hwid
   cleared); hardware bound (to B); no resets remaining.  Each conjunct is
   one request of the trace: the license state it starts from is the state
   the one before leaves. *)
C12_Scenario ==
    [][/\ ( /\ Arrives(1)
            /\ req'[1].op \in ClaimOps
            /\ req'[1].license_key = "K1"
            /\ req'[1].discord_id = "u1"
            /\ ScenarioFresh(fetchone(licenses, "K1"))
            /\ req'[1].op = "claim" => "K1" \in DOMAIN licenses )
          => req'[1].pc = "update"
       /\ ( /\ Answers(1)
            /\ req[1].op \in ClaimOps
            /\ req[1].pc = "commit"
            /\ req[1].license_key = "K1"
            /\ req[1].discord_id = "u1"
            /\ ScenarioFresh(req[1].row) )
          => /\ IsSuccess(req'[1].resp)
             /\ ScenarioRow(licenses'["K1"], NULL, 1)
       /\ ScenarioValidate(NULL, 1, "A",
                jsonify(200, "HWID bound successfully"), "A")
       /\ ScenarioValidate("A", 1, "A", jsonify(200, "License valid"), "A")
       /\ ScenarioValidate("A", 1, "B",
                jsonify(403, "HWID mismatch. License is bound to another PC."),
                "A")
       /\ ScenarioResetArrives("A", 1) => req'[1].pc = "update"
       /\ ( /\ Answers(1)
            /\ req[1].op = "hwid_reset"
            /\ req[1].pc = "commit"
            /\ req[1].license_key = "K1"
            /\ ScenarioRow(licenses["K1"], "A", 1) )
          => /\ req'[1].resp = jsonify(200, "HWID reset successfully")
             /\ licenses' = [licenses EXCEPT !["K1"] =
                    [@ EXCEPT !.hwid = NULL, !.hwid_resets = 0]]
       /\ ScenarioValidate(NULL, 0, "B",
                jsonify(200, "HWID bound successfully"), "B")
       /\ ScenarioResetArrives("B", 0)
          => /\ req'[1].pc = "done"
             /\ req'[1].resp = jsonify(403, "No HWID resets remaining")
             /\ licenses' = licenses]_vars

(* the end of the trace: seven requests were sent, the four validates
   logged A, A, B, B, the license is bound to B with counter 0 and the last
   request, a reset, was refused *)
C12_Witness ==
    /\ nreq = SeqRequests - 7
    /\ req[1].op = "hwid_reset"
    /\ req[1].pc = "done"
    /\ req[1].resp = jsonify(403, "No HWID resets remaining")
    /\ "K1" \in DOMAIN licenses
    /\ ScenarioRow(licenses["K1"], "B", 0)
    /\ access_logs = <<LogRow("K1", "A", remote_addr(1)),
                       LogRow("K1", "A", remote_addr(1)),
                       LogRow("K1", "B", remote_addr(1)),
                       LogRow("K1", "B", remote_addr(1))>>

IsNotFound(resp) == resp.code = 404 /\ resp.msg = "License not found"

(* C13: license records are created by generate only: a well-formed Claim
   that arrives for a key with no record is answered License not found at
   once, and the set of license keys changes in no step other than the
   commit of a generate. *)
C13_ClaimNeverCreates ==
    [][/\ \A p \in Procs :
            ( /\ Arrives(p)
              /\ req'[p].op \in ClaimOps
              /\ ~IsMalformed(req'[p].resp)
              /\ req'[p].license_key \notin DOMAIN licenses )
            => /\ req'[p].pc = "done"
               /\ IsNotFound(req'[p].resp)
       /\ DOMAIN licenses' # DOMAIN licenses
            => \E p \in Procs : req[p].op = "generate" /\ Answers(p)]_vars

AdminOps == {"revoke_license", "hwid_reset", "check_share"}

(* C14: a revoke_license, hwid_reset or check_share request whose
   admin_secret is not the configured secret is answered 401 Unauthorized in
   the step it arrives, whatever the license store holds (the answer is the
   same constant for an absent, present, bound, revoked or exhausted
   license), and that step changes neither table nor the write lock. *)
C14_UnauthorizedUniform ==
    [][\A p \in Procs :
        ( /\ Arrives(p)
          /\ req'[p].op \in AdminOps
          /\ req'[p].admin_secret # ADMIN_SECRET )
        => /\ req'[p].pc = "done"
           /\ req'[p].resp = jsonify(401, "Unauthorized")
           /\ req'[p].row = << >>
           /\ UNCHANGED <<licenses, access_logs, txn_licenses, txn_logs,
                          writer>>]_vars

(* two requests with a wrong secret were refused, one naming a license that
   exists and is revoked, one naming a license that does not exist *)
C14_Witness ==
    \E p \in Procs, q \in Procs :
        /\ p # q
        /\ req[p].pc = "done" /\ req[q].pc = "done"
        /\ req[p].op \in AdminOps /\ req[q].op \in AdminOps
        /\ req[p].admin_secret # ADMIN_SECRET
        /\ req[q].admin_secret # ADMIN_SECRET
        /\ req[p].resp = jsonify(401, "Unauthorized")
        /\ req[q].resp = jsonify(401, "Unauthorized")
        /\ req[p].license_key \in DOMAIN licenses
        /\ licenses[req[p].license_key].revoked = 1
        /\ req[q].license_key \notin DOMAIN licenses

(* C15: revoked is monotonic: a license that is revoked stays in the table
   and stays revoked in every step of every interleaving. *)
C15_RevokedMonotonic ==
    [][\A k \in DOMAIN licenses :
        licenses[k].revoked = 1
        => /\ k \in DOMAIN licenses'
           /\ licenses'[k].revoked = 1]_vars

(* a redeem_license that read its license after the revoke had committed
   wrote the owner of that license, which is still revoked *)
C15_Witness ==
    \E p \in Procs :
        /\ req[p].op = "redeem_license"
        /\ req[p].pc = "done"
        /\ IsSuccess(req[p].resp)
        /\ req[p].row # << >>
        /\ req[p].row[1].revoked = 1
        /\ req[p].license_key \in DOMAIN licenses
        /\ licenses[req[p].license_key].revoked = 1
        /\ licenses[req[p].license_key].discord_id = req[p].discord_id
        /\ \E q \in Procs :
            /\ req[q].op = "revoke_license"
            /\ req[q].pc = "done"
            /\ IsSuccess(req[q].resp)

(* the step is one of the request of slot p *)
StepOf(p) == req'[p] # req[p]

(* C16: no step of a Claim (claim of app.py, redeem_license of
   license_api.py) changes the hwid of a license, and a record that a Claim
   creates has no hwid; no step of a hardware-binding Validate changes an
   owner identity.  So when the two run interleaved on one license the
   final record carries the hwid of the one and the owner of the other. *)
C16_ClaimKeepsHwid ==
    [][\A p \in Procs :
        /\ (StepOf(p) /\ req'[p].op \in ClaimOps)
           => /\ \A k \in DOMAIN licenses :
                    /\ k \in DOMAIN licenses'
                    /\ licenses'[k].hwid = licenses[k].hwid
              /\ \A k \in DOMAIN licenses' \ DOMAIN licenses :
                    licenses'[k].hwid = NULL
        /\ (StepOf(p) /\ req'[p].op \in BindOps)
           => /\ DOMAIN licenses' = DOMAIN licenses
              /\ \A k \in DOMAIN licenses :
                    licenses'[k].discord_id = licenses[k].discord_id]_vars

(* a redeem of app.py and a Claim ran interleaved on a license with no owner
   and no hwid: each read the license before the other had written, both
   succeeded, and the record has the hwid of the one and the owner of the
   other *)
C16_Witness ==
    \E p \in Procs, q \in Procs :
        /\ req[p].op = "redeem" /\ req[q].op \in ClaimOps
        /\ req[p].pc = "done" /\ req[q].pc = "done"
        /\ IsSuccess(req[p].resp) /\ IsSuccess(req[q].resp)
        /\ req[p].license_key = req[q].license_key
        /\ req[p].row # << >> /\ req[q].row # << >>
        /\ req[p].row = req[q].row
        /\ ~Truthy(req[p].row[1].hwid)
        /\ ~Truthy(req[p].row[1].discord_id)
        /\ licenses[req[p].license_key].hwid = req[p].hwid
        /\ licenses[req[p].license_key].discord_id = req[q].discord_id

(* the request of slot p is a first-time bind: a hardware-binding Validate
   that read its license with no hwid *)
FirstBind(p) ==
    /\ req[p].op \in BindOps
    /\ req[p].row # << >>
    /\ ~Truthy(req[p].row[1].hwid)

(* C17: the access-log row of a Validate is written after the request has
   decided: the INSERT into access_logs is a step of a request that stands
   at log_access (or, for validate of app.py, past its checks), and a
   first-time bind comes to log_access only by the step that commits its
   UPDATE of hwid; while a bind is before or in its UPDATE it writes no
   log row. *)
C17_LogAfterDecision ==
    [][\A p \in Procs :
        /\ (StepOf(p) /\ txn_logs' # txn_logs)
           => /\ req[p].op \in ValidateOps
              /\ req[p].pc = IF req[p].op = "validate"
                             THEN "insert" ELSE "log_insert"
              /\ txn_logs' = Append(access_logs,
                    LogRow(req[p].license_key, req[p].hwid, remote_addr(p)))
        /\ (StepOf(p) /\ access_logs' # access_logs)
           => /\ req[p].op \in ValidateOps
              /\ req[p].pc = IF req[p].op = "validate"
                             THEN "commit" ELSE "log_commit"
        /\ ( /\ FirstBind(p)
             /\ req[p].pc # "log_insert"
             /\ req'[p].pc = "log_insert" )
           => /\ req[p].pc = "commit"
              /\ writer = p
              /\ writer' = 0
              /\ licenses' = txn_licenses
              /\ licenses'[req[p].license_key].hwid = req[p].hwid
        /\ (StepOf(p) /\ FirstBind(p) /\ req[p].pc \in {"update", "commit"})
           => /\ access_logs' = access_logs
              /\ txn_logs' = txn_logs]_vars

(* a first-time bind was answered: its hwid is committed and its log row is
   in the access log *)
C17_Witness ==
    \E p \in Procs :
        /\ FirstBind(p)
        /\ req[p].pc = "done"
        /\ IsSuccess(req[p].resp)
        /\ licenses[req[p].license_key].hwid = req[p].hwid
        /\ \E i \in 1 .. Len(access_logs) :
            access_logs[i] = LogRow(req[p].license_key, req[p].hwid,
                                    remote_addr(p))

IsNotRedeemed(resp) ==
    /\ resp.code = 403
    /\ resp.msg = "License not activated. Redeem in Discord first."

(* C18: validate_license of license_api.py is identity-gated: a well-formed
   request that arrives for a license that exists, is not revoked and has no
   owner is answered License not activated at once and writes neither table;
   every step of a validate_license that writes the licenses table writes a
   license that has an owner. *)
C18_IdentityGated ==
    [][\A p \in Procs :
        /\ ( /\ Arrives(p)
             /\ req'[p].op = "validate_license"
             /\ ~IsMalformed(req'[p].resp)
             /\ req'[p].license_key \in DOMAIN licenses
             /\ licenses[req'[p].license_key].revoked = 0
             /\ ~Truthy(licenses[req'[p].license_key].discord_id) )
           => /\ req'[p].pc = "done"
              /\ IsNotRedeemed(req'[p].resp)
              /\ UNCHANGED <<licenses, access_logs, txn_licenses, txn_logs,
                             writer>>
        /\ ( /\ StepOf(p)
             /\ req[p].op = "validate_license"
             /\ txn_licenses' # txn_licenses \/ licenses' # licenses )
           => /\ Truthy(licenses[req[p].license_key].discord_id)
              /\ Truthy(txn_licenses'[req[p].license_key].discord_id)]_vars

(* a validate_license was refused as not redeemed on a license that has no
   owner: the license has no hwid and the access log is empty *)
C18_Witness ==
    \E p \in Procs :
        /\ req[p].op = "validate_license"
        /\ req[p].pc = "done"
        /\ IsNotRedeemed(req[p].resp)
        /\ req[p].license_key \in DOMAIN licenses
        /\ ~Truthy(licenses[req[p].license_key].discord_id)
        /\ licenses[req[p].license_key].hwid = NULL
        /\ access_logs = << >>

(* the failure answers: missing input, unauthorized, revoked, not redeemed,
   already claimed or redeemed, HWID mismatch, no resets remaining, license
   not found *)
IsFailure(resp) == resp.code \in {400, 401, 403, 404}

(* C19: a request that is answered with a failure has written no license:
   it is answered in the step it arrives, or it is a revoke_license whose
   UPDATE matched no row, or it is a validate_license on its HWID-mismatch
   branch, which has written its access-log row and nothing else.  The step
   a request arrives in and the steps of log_access leave the licenses
   table as it is. *)
C19_FailureWritesNothing ==
    [][\A p \in Procs :
        /\ Arrives(p)
           => UNCHANGED <<licenses, access_logs, txn_licenses, txn_logs,
                          writer>>
        /\ (StepOf(p) /\ req[p].pc \in {"log_insert", "log_commit"})
           => /\ licenses' = licenses
              /\ txn_licenses' = txn_licenses
        /\ (Answers(p) /\ IsFailure(req'[p].resp))
           => /\ licenses' = licenses
              /\ txn_licenses' = txn_licenses
              /\ \/ req[p].pc = "idle"
                 \/ /\ req[p].op = "revoke_license"
                    /\ req[p].pc = "update"
                    /\ req[p].license_key \notin DOMAIN licenses
                 \/ /\ req[p].op = "validate_license"
                    /\ req[p].pc = "log_commit"
                    /\ IsMismatch(req'[p].resp)
                    /\ Truthy(req[p].row[1].hwid)
              /\ access_logs' # access_logs
                    => /\ req[p].op = "validate_license"
                       /\ IsMismatch(req'[p].resp)]_vars

(* a validate_license was answered HWID mismatch: its row is the last of
   the access log and the license is bound as it was when the request read
   it *)
C19_Witness ==
    \E p \in Procs :
        /\ req[p].op = "validate_license"
        /\ req[p].pc = "done"
        /\ IsMismatch(req[p].resp)
        /\ Len(access_logs) >= 2
        /\ access_logs[Len(access_logs)]
                = LogRow(req[p].license_key, req[p].hwid, remote_addr(p))
        /\ licenses[req[p].license_key] = req[p].row[1]
        /\ licenses[req[p].license_key].hwid # req[p].hwid

(* every row of log a is at the same place in log b *)
IsPrefix(a, b) ==
    /\ Len(a) <= Len(b)
    /\ \A i \in 1 .. Len(a) : b[i] = a[i]

(* C20: the access log only grows at its end, no step of hwid_reset or
   revoke_license writes it, so the distinct-hwid count of a license never
   decreases, and check_share reads that count from the whole log: it
   counts every hwid ever logged for the license, the ones bound before a
   reset included. *)
C20_LogAppendOnly ==
    [][/\ IsPrefix(access_logs, access_logs')
       /\ \A k \in Keys :
            Cardinality(distinct_hwids(access_logs', k))
                >= Cardinality(distinct_hwids(access_logs, k))
       /\ \A p \in Procs :
            /\ (StepOf(p) /\ req'[p].op \in {"hwid_reset", "revoke_license"})
               => /\ access_logs' = access_logs
                  /\ txn_logs' = txn_logs
            /\ ( /\ Arrives(p)
                 /\ req'[p].op = "check_share"
                 /\ req'[p].pc = "select_ips" )
               => /\ req'[p].resp.unique_hwids
                        = Cardinality(distinct_hwids(access_logs,
                                                     req'[p].license_key))
                  /\ \A i \in 1 .. Len(access_logs) :
                        access_logs[i].license_key = req'[p].license_key
                        => req'[p].resp.unique_hwids
                            >= Cardinality({access_logs[j].hwid :
                                j \in {n \in 1 .. i :
                                    access_logs[n].license_key
                                        = req'[p].license_key}})]_vars

(* bound to A, reset, bound to B, then check_share: the license is bound to
   B with no reset left, and check_share reported two hardware ids *)
C20_Witness ==
    /\ req[1].op = "check_share"
    /\ req[1].pc = "done"
    /\ req[1].license_key = "K1"
    /\ req[1].resp.unique_hwids = 2
    /\ "K1" \in DOMAIN licenses
    /\ licenses["K1"].hwid = "B"
    /\ licenses["K1"].hwid_resets = 0
    /\ access_logs = <<LogRow("K1", "A", remote_addr(1)),
                       LogRow("K1", "B", remote_addr(1))>>

====
